---- MODULE Spec2Model ----
(***************************************************************************)
(* Model of the SCADA Web API (src/main.py): the OPC UA connection         *)
(* supervisor (OpcUaClient), the broadcast scheduler thread                *)
(* (data_broadcast_loop), the worker pool it shares with the pull query    *)
(* (get_initial_data), and the websocket subscriber registry (ws_endpoint).*)
(*                                                                         *)
(* Threads of the program and how they appear here:                        *)
(*   - the scheduler thread: the Sched* actions, position in pc;           *)
(*   - the executor's worker threads: one task per device and submitter,   *)
(*     the CD* actions (connect_and_discover) and the Rd* actions          *)
(*     (read_data);                                                        *)
(*   - the asyncio event loop thread: the Ws*, Grant, Revoke, Pull*,       *)
(*     Write*, Keepalive*, Telemetry* and Shutdown actions.                *)
(*     get_initial_data calls executor.map and write_plc_value the device  *)
(*     I/O synchronously, so the event loop runs nothing else until they   *)
(*     have returned (LoopBusy).                                           *)
(* Each action is one step between two points where another thread can    *)
(* observe or change shared state (blocking I/O, or the statements next to *)
(* it).                                                                    *)
(***************************************************************************)
EXTENDS Integers, Sequences, FiniteSets, TLC

-----------------------------------------------------------------------------
(* Configuration (config.json) and the environment *)

\* the url of every entry of PLC_CONFIG
Urls == {"A", "B"}

\* plc_clients, in the order on_startup appends them
DevOrder == <<"A", "B">>

\* PARKS: park id -> url, built from the same config.json
Parks == {"pA", "pB"}

ParkUrl(p) == IF p = "pA" THEN "A" ELSE "B"

\* reconnect_delay, in clock units
Cooldown == 1

\* the clock runs from 0 to MaxTime
MaxTime == 3

\* last_reconnect_attempt of a device that was never attempted
None == -1

\* at most MaxInFlight telemetry_update sends are in progress on one socket
MaxInFlight == 2

\* the sends followed per socket from their hand-over to their start
MaxHanded == 3

\* at most MaxFaults calls of one discovery raise
MaxFaults == 2

\* the tags of the devices, in browse order
TagOrder == <<"t1", "t2">>

\* the readable tags each device exposes: A has two, B legitimately has none
PlcTags(d) == IF d = "A" THEN {"t1", "t2"} ELSE {}

\* who submitted a read_data task: the scheduler's read sweep or a pull query
Owners == {"sched", "pull"}

\* users of the database: X is a plain user, Y a superuser
Users == {"X", "Y"}

IsSuperuser(u) == u = "Y"

\* the users whose pull queries the supervisor side considers
PullUsers == {"X"}

\* websocket connections
Sockets == {"w1", "w2"}

-----------------------------------------------------------------------------
VARIABLES
  now,        \* the wall clock, datetime.now()
  status,     \* status[d]: OpcUaClient.status
  client,     \* client[d]: TRUE iff OpcUaClient.client is not None
  nodes,      \* nodes[d]: OpcUaClient.nodes, as the set of its tag names
  last,       \* last[d]: OpcUaClient.last_reconnect_attempt, or None
  cd,         \* cd[d]: the connect_and_discover task of the reconnect sweep
  rd,         \* rd[o][d]: the read_data task of submitter o on device d
  pc,         \* where the scheduler thread is in data_broadcast_loop
  stop,       \* stop_event is set and the executor is shut down
  grants,     \* the park ids user X holds in user_park_access (pA at start)
  active,     \* active_ws_connections: active[u] is the set object of key u
  keys,       \* the keys of active_ws_connections, in insertion order
  allowed,    \* allowed[w]: websocket.allowed_urls of a registered socket
  bQueue,     \* broadcast: the (user, set) items still to be iterated
  bStale,     \* broadcast: users whose set object was popped since line 255
  bIter,      \* broadcast: the set iterator of the inner for loop
  got,        \* history: the payloads handed to send_json for socket w
  bSent,      \* history: the sockets this tick's broadcast has sent to
  bReg,       \* history: the sockets registered since this broadcast began
  prevStart,  \* history: when d's latest connect_and_discover started
  lastGap,    \* history: the time between d's two latest starts, or None
  tickDue,    \* history: the devices that were due at this tick's start
  tickTried,  \* history: the devices whose connect_and_discover ran this tick
  sends,      \* sends[w]: the send_json coroutines in progress on socket w
  wreq,       \* the write_plc_value request being served, and its response
  hs,         \* hs[w]: the credential of w's latest handshake and its outcome
  preq,       \* the get_initial_data request being served, and its response
  outq,       \* outq[w]: the telemetry_update sends handed to the event loop
  marks       \* marks[d]: the node faults d's latest discovery ran into

devVars == <<status, client, nodes, last>>
regVars == <<grants, active, keys, allowed, got>>
bcVars == <<bQueue, bStale, bIter, bSent, bReg>>
histVars == <<prevStart, lastGap, tickDue, tickTried>>
ioVars == <<sends, wreq>>
reqVars == <<hs, preq, outq, marks>>
vars == <<now, status, client, nodes, last, cd, rd, pc, stop, grants, active,
          keys, allowed, bQueue, bStale, bIter, got, bSent, bReg, prevStart,
          lastGap, tickDue, tickTried, sends, wreq, hs, preq, outq, marks>>

Statuses == {"CONNECTED", "CONNECTING", "DISCONNECTED", "ERROR"}

\* a read_data task that is not submitted
IdleRead == [pc |-> "idle", st |-> "", ids |-> {}, names |-> {},
             out |-> {}, err |-> ""]

\* no set iterator is open
NoIter == [on |-> FALSE, used |-> 0, seen |-> {}, init |-> {}]

\* no send_json is in progress on a socket; bad records that a
\* telemetry_update send on the socket has failed
NoSends == [ka |-> FALSE, tu |-> 0, bad |-> FALSE]

\* no write_plc_value request is being served and none was answered
NoWrite == [pc |-> "idle", url |-> "", node |-> "", res |-> "",
            val |-> [kind |-> "", x10 |-> 0],
            wrote |-> [vt |-> "", v |-> [kind |-> "", x10 |-> 0]]]

\* the credential of a socket that has made no handshake
NoCred == [user |-> "", kind |-> "none"]

\* no handshake was made on a socket
NoHandshake == [cred |-> NoCred, db |-> "", code |-> ""]

\* no get_initial_data request is being served and none was answered
NoPull == [user |-> "", resp |-> {}, code |-> ""]

\* nothing was handed to the event loop for a socket: n counts the sends
\* handed, q holds the ones not started yet, last is the latest one started
NoOrder == [n |-> 0, q |-> <<>>, last |-> 0]

\* a discovery that ran into no node fault
NoMarks == {}

\* the snapshot a finished read_data task returns
DoneRead(st, out, err) == [pc |-> "done", st |-> st, ids |-> {}, names |-> {},
                           out |-> out, err |-> err]

Init ==
  /\ now = 0
  /\ status = [d \in Urls |-> "DISCONNECTED"]
  /\ client = [d \in Urls |-> FALSE]
  /\ nodes = [d \in Urls |-> {}]
  /\ last = [d \in Urls |-> None]
  /\ cd = [d \in Urls |-> "idle"]
  /\ rd = [o \in Owners |-> [d \in Urls |-> IdleRead]]
  /\ pc = "loop"
  /\ stop = FALSE
  /\ grants = {"pA"}
  /\ active = [u \in Users |-> {}]
  /\ keys = <<>>
  /\ allowed = [w \in Sockets |-> {}]
  /\ bQueue = <<>>
  /\ bStale = {}
  /\ bIter = NoIter
  /\ got = [w \in Sockets |-> {}]
  /\ bSent = {}
  /\ bReg = {}
  /\ prevStart = [d \in Urls |-> None]
  /\ lastGap = [d \in Urls |-> None]
  /\ tickDue = {}
  /\ tickTried = {}
  /\ sends = [w \in Sockets |-> NoSends]
  /\ wreq = NoWrite
  /\ hs = [w \in Sockets |-> NoHandshake]
  /\ preq = NoPull
  /\ outq = [w \in Sockets |-> NoOrder]
  /\ marks = [d \in Urls |-> NoMarks]

-----------------------------------------------------------------------------
(* The clock *)

Tick ==
  /\ now < MaxTime
  /\ now' = now + 1
  /\ UNCHANGED <<reqVars, ioVars, devVars, cd, rd, pc, stop, regVars, bcVars,
                 histVars>>

-----------------------------------------------------------------------------
(* OpcUaClient.connect_and_discover, run by a worker thread *)

\* a connect_and_discover whose except branch forgets the status
CDFailStatusStaysConnecting == "CONNECTING"

\* line 204: the status the except branch leaves
CDFailStatus == "DISCONNECTED"

\* a discovery that stops after the first readable node
DiscoverFirstOnly(d) == {t \in PlcTags(d) : t = TagOrder[1]}

\* lines 198-199: the node map a successful discovery stores
Discover(d) == PlcTags(d)

\* lines 182-191: timestamp, tear down the old client, make a new one,
\* status CONNECTING, node map emptied; then the blocking connect() starts
CDStart(d) ==
  /\ cd[d] = "queued"
  /\ cd' = [cd EXCEPT ![d] = "running"]
  /\ last' = [last EXCEPT ![d] = now]
  /\ client' = [client EXCEPT ![d] = TRUE]
  /\ status' = [status EXCEPT ![d] = "CONNECTING"]
  /\ nodes' = [nodes EXCEPT ![d] = {}]
  /\ prevStart' = [prevStart EXCEPT ![d] = now]
  /\ lastGap' = [lastGap EXCEPT ![d] =
                   IF prevStart[d] = None THEN None ELSE now - prevStart[d]]
  /\ tickTried' = tickTried \cup {d}
  /\ UNCHANGED <<reqVars, ioVars, now, rd, pc, stop, regVars, bcVars, tickDue>>

\* lines 193-202: connect() and the discovery returned
CDSucceed(d) ==
  /\ cd[d] = "running"
  /\ cd' = [cd EXCEPT ![d] = "ok"]
  /\ nodes' = [nodes EXCEPT ![d] = Discover(d)]
  /\ status' = [status EXCEPT ![d] = "CONNECTED"]
  /\ UNCHANGED <<reqVars, ioVars, now, client, last, rd, pc, stop, regVars,
                 bcVars, histVars>>

\* the address space below the root node of each device: device A has a
\* folder f1 holding variable v1 (tag t1) and, next to it, variable v2 (tag
\* t2); device B has the root node alone
Root(d) == IF d = "A" THEN "rA" ELSE "rB"

Children(n) ==
  IF n = "rA" THEN <<"f1", "v2">> ELSE IF n = "f1" THEN <<"v1">> ELSE <<>>

Parent(n) ==
  IF n = "v1" THEN "f1" ELSE IF n \in {"f1", "v2"} THEN "rA" ELSE ""

DevNodes(d) == IF d = "A" THEN {"rA", "f1", "v1", "v2"} ELSE {"rB"}

\* get_node_class() of the node is ua.NodeClass.Variable
IsVariable(n) == n \in {"v1", "v2"}

\* get_browse_name().Name of a variable
BrowseName(n) == IF n = "v1" THEN "t1" ELSE "t2"

\* the calls of a discovery that may raise: for a node, "class" is the
\* classification of lines 170-171 and "children" the get_children() of
\* line 175
NodeFaults(d) == DevNodes(d) \X {"class", "children"}

\* the faults one discovery runs into
FaultSets(d) == {m \in SUBSET NodeFaults(d) : Cardinality(m) <= MaxFaults}

\* a discovery with one try block for the whole node: a node that cannot
\* be classified loses its children too
RECURSIVE GetReadableNodesOneTry(_, _)
GetReadableNodesOneTry(node, m) ==
  IF <<node, "class">> \in m THEN {}
  ELSE (IF IsVariable(node) THEN {BrowseName(node)} ELSE {}) \cup
       (IF <<node, "children">> \in m THEN {}
        ELSE UNION {GetReadableNodesOneTry(Children(node)[i], m) :
                      i \in 1..Len(Children(node))})

\* _get_readable_nodes, lines 167-179: the keys of the dict returned for
\* node when the calls in m raise.  The first try adds the node itself, the
\* second one the dicts of its children; either except passes.
RECURSIVE GetReadableNodes(_, _)
GetReadableNodes(node, m) ==
  (IF <<node, "class">> \notin m /\ IsVariable(node)
     THEN {BrowseName(node)} ELSE {}) \cup
  (IF <<node, "children">> \in m THEN {}
   ELSE UNION {GetReadableNodes(Children(node)[i], m) :
                 i \in 1..Len(Children(node))})

\* lines 193-202: connect() returned and the discovery ran into the faults
\* m; what it found is stored and the status is CONNECTED
CDSucceedWith(d, m) ==
  /\ cd[d] = "running"
  /\ cd' = [cd EXCEPT ![d] = "ok"]
  /\ nodes' = [nodes EXCEPT ![d] = GetReadableNodes(Root(d), m)]
  /\ status' = [status EXCEPT ![d] = "CONNECTED"]
  /\ marks' = [marks EXCEPT ![d] = m]
  /\ UNCHANGED <<hs, preq, outq, ioVars, now, client, last, rd, pc, stop,
                 regVars, bcVars, histVars>>

\* lines 203-207: connect() or the discovery raised (a timeout included)
CDFail(d) ==
  /\ cd[d] = "running"
  /\ cd' = [cd EXCEPT ![d] = "fail"]
  /\ status' = [status EXCEPT ![d] = CDFailStatus]
  /\ client' = [client EXCEPT ![d] = FALSE]
  /\ UNCHANGED <<reqVars, ioVars, now, nodes, last, rd, pc, stop, regVars,
                 bcVars, histVars>>

-----------------------------------------------------------------------------
(* OpcUaClient.read_data, run by a worker thread *)

\* a read_data that returns early only on DISCONNECTED
SkipReadOnlyDisconnected(d) == status[d] = "DISCONNECTED" \/ ~client[d]

\* line 211: the cases in which read_data returns the status-only snapshot
SkipRead(d) == status[d] # "CONNECTED" \/ ~client[d]

\* the first k tags of set s in browse order
RECURSIVE FirstK(_, _, _)
FirstK(s, k, i) ==
  IF k = 0 \/ i > Len(TagOrder) THEN {}
  ELSE IF TagOrder[i] \in s THEN {TagOrder[i]} \cup FirstK(s, k - 1, i + 1)
  ELSE FirstK(s, k, i + 1)

\* lines 220-221: zip(names, values), one value per handle that was read
Zip(names, ids) == FirstK(names, Cardinality(ids), 1)

\* a read_data that marks the device ERROR on every failure
ReadFailStatusAlwaysError(kind, cur) == "ERROR"

\* lines 222-226: what a failed get_values does to the status
ReadFailStatus(kind, cur) == IF kind = "ua" THEN "ERROR" ELSE cur

\* lines 222-226: the error string of the snapshot
ReadFailNote(kind) ==
  IF kind = "ua" THEN "OPC UA read error" ELSE "Temporary read failure."

\* lines 210-212: build the snapshot head, return it if not connected
RdStart(o, d) ==
  /\ rd[o][d].pc = "queued"
  /\ rd' = [rd EXCEPT ![o][d] =
              IF SkipRead(d) THEN DoneRead(status[d], {}, "")
              ELSE [IdleRead EXCEPT !.pc = "ids", !.st = status[d]]]
  /\ UNCHANGED <<reqVars, ioVars, now, devVars, cd, pc, stop, regVars, bcVars,
                 histVars>>

\* line 214: ids = list(self.nodes.values())
RdIds(o, d) ==
  /\ rd[o][d].pc = "ids"
  /\ rd' = [rd EXCEPT ![o][d].pc = "names", ![o][d].ids = nodes[d]]
  /\ UNCHANGED <<reqVars, ioVars, now, devVars, cd, pc, stop, regVars, bcVars,
                 histVars>>

\* lines 215-219: names = list(self.nodes.keys()); no ids: "No readable
\* nodes."; else self.client.get_values(ids) is called (self.client None:
\* AttributeError, the generic branch)
RdNames(o, d) ==
  /\ rd[o][d].pc = "names"
  /\ rd' = [rd EXCEPT ![o][d] =
              IF rd[o][d].ids = {}
                THEN DoneRead(rd[o][d].st, {}, "No readable nodes.")
              ELSE IF ~client[d]
                THEN DoneRead(rd[o][d].st, {}, ReadFailNote("other"))
              ELSE [rd[o][d] EXCEPT !.pc = "io", !.names = nodes[d]]]
  /\ UNCHANGED <<reqVars, ioVars, now, devVars, cd, pc, stop, regVars, bcVars,
                 histVars>>

\* lines 219-221: get_values returned the values
RdReturnOk(o, d) ==
  /\ rd[o][d].pc = "io"
  /\ rd' = [rd EXCEPT ![o][d] =
              DoneRead(rd[o][d].st, Zip(rd[o][d].names, rd[o][d].ids), "")]
  /\ UNCHANGED <<reqVars, ioVars, now, devVars, cd, pc, stop, regVars, bcVars,
                 histVars>>

\* lines 222-227: get_values raised; kind "ua" is UaStatusCodeError
RdReturnFail(o, d, kind) ==
  /\ rd[o][d].pc = "io"
  /\ rd' = [rd EXCEPT ![o][d] = DoneRead(rd[o][d].st, {}, ReadFailNote(kind))]
  /\ status' = [status EXCEPT ![d] = ReadFailStatus(kind, status[d])]
  /\ UNCHANGED <<reqVars, ioVars, now, client, nodes, last, cd, pc, stop,
                 regVars, bcVars, histVars>>

-----------------------------------------------------------------------------
(* executor.map: submit one task per item, then wait for the results in     *)
(* submission order; a cancelled future raises when its turn comes          *)

\* a wait that ends with the first task of the sweep
JoinFromFirstOnly(st, i) ==
  IF st[DevOrder[i]] \in {"idle", "finished"} THEN "ok"
  ELSE IF st[DevOrder[i]] = "cancelled" THEN "raise"
  ELSE "wait"

RECURSIVE JoinFrom(_, _)
JoinFrom(st, i) ==
  IF i > Len(DevOrder) THEN "ok"
  ELSE IF st[DevOrder[i]] \in {"idle", "finished"} THEN JoinFrom(st, i + 1)
  ELSE IF st[DevOrder[i]] = "cancelled" THEN "raise"
  ELSE "wait"

CDJoin ==
  JoinFrom([d \in Urls |-> IF cd[d] \in {"ok", "fail"} THEN "finished"
                           ELSE IF cd[d] \in {"idle", "cancelled"} THEN cd[d]
                           ELSE "busy"], 1)

RdJoin(o) ==
  JoinFrom([d \in Urls |-> IF rd[o][d].pc = "done" THEN "finished"
                           ELSE IF rd[o][d].pc \in {"idle", "cancelled"}
                             THEN rd[o][d].pc
                           ELSE "busy"], 1)

\* the read tasks of submitter o after submitting one for every device in ds
Submitted(o, ds) ==
  [rd EXCEPT ![o] = [d \in Urls |-> IF d \in ds
                                      THEN [IdleRead EXCEPT !.pc = "queued"]
                                      ELSE IdleRead]]

-----------------------------------------------------------------------------
(* data_broadcast_loop, the scheduler thread *)

\* a reconnect sweep that ignores the cooldown
ReconnectListNoCooldown(t) ==
  {d \in Urls : status[d] \in {"DISCONNECTED", "ERROR"}}

\* a reconnect sweep that forgets the devices in ERROR
ReconnectListSkipsError(t) ==
  {d \in Urls : /\ status[d] = "DISCONNECTED"
                /\ (last[d] = None \/ t - last[d] > Cooldown)}

\* a reconnect sweep that takes every device whose cooldown has elapsed
ReconnectListAnyStatus(t) ==
  {d \in Urls : last[d] = None \/ t - last[d] > Cooldown}

\* lines 243-247: the devices of this tick's reconnect sweep
ReconnectList(t) ==
  {d \in Urls : /\ status[d] \in {"DISCONNECTED", "ERROR"}
                /\ (last[d] = None \/ t - last[d] > Cooldown)}

\* the devices that are out of Connected and whose cooldown, counted from the
\* start of the previous attempt, has elapsed
Due(t) ==
  {d \in Urls : /\ status[d] \notin {"CONNECTED", "CONNECTING"}
                /\ (prevStart[d] = None \/ t > prevStart[d] + Cooldown)}

\* a loop that never looks at stop_event
LoopRunsForever == TRUE

\* line 240: while not stop_event.is_set()
LoopRuns == ~stop

\* line 240: stop_event is set, the loop ends
SchedStop ==
  /\ pc = "loop"
  /\ ~LoopRuns
  /\ pc' = "stopped"
  /\ UNCHANGED <<reqVars, ioVars, now, devVars, cd, rd, stop, regVars, bcVars,
                 histVars>>

\* lines 240-252: a tick starts; the reconnect sweep is submitted, or, with
\* nothing to reconnect, the read sweep
SchedTick ==
  /\ pc = "loop"
  /\ LoopRuns
  /\ tickDue' = Due(now)
  /\ tickTried' = {}
  /\ IF ReconnectList(now) # {}
       THEN /\ cd' = [d \in Urls |->
                        IF d \in ReconnectList(now) THEN "queued" ELSE "idle"]
            /\ pc' = "reconnect"
            /\ rd' = rd
       ELSE /\ rd' = Submitted("sched", Urls)
            /\ pc' = "read"
            /\ cd' = cd
  /\ UNCHANGED <<reqVars, ioVars, now, devVars, stop, regVars, bcVars,
                 prevStart, lastGap>>

\* lines 249-252: every connect_and_discover returned; submit the read sweep
\* (executor.map raises once the executor is shut down)
SchedReconnected ==
  /\ pc = "reconnect"
  /\ CDJoin = "ok"
  /\ cd' = [d \in Urls |-> "idle"]
  /\ IF stop
       THEN pc' = "backoff" /\ rd' = rd
       ELSE pc' = "read" /\ rd' = Submitted("sched", Urls)
  /\ UNCHANGED <<reqVars, ioVars, now, devVars, stop, regVars, bcVars,
                 histVars>>

\* lines 249, 252, 276: a sweep's future was cancelled by the shutdown
SchedSweepRaised ==
  /\ \/ pc = "reconnect" /\ CDJoin = "raise"
     \/ pc = "read" /\ RdJoin("sched") = "raise"
  /\ pc' = "backoff"
  /\ UNCHANGED <<reqVars, ioVars, now, devVars, cd, rd, stop, regVars, bcVars,
                 histVars>>

\* the sockets registered in active_ws_connections
Registered == UNION {active[u] : u \in Users}

\* the user whose set holds socket w
UserOf(w) == CHOOSE u \in Users : w \in active[u]

\* lines 252-255: every read_data returned, all_plc_data is complete; the
\* broadcast takes list(active_ws_connections.items()); the tick's history
\* of the reconnect sweep ends here
SchedRead ==
  /\ pc = "read"
  /\ RdJoin("sched") = "ok"
  /\ rd' = [rd EXCEPT !["sched"] = [d \in Urls |-> IdleRead]]
  /\ pc' = "bcast"
  /\ bQueue' = keys
  /\ bStale' = {}
  /\ bIter' = NoIter
  /\ bSent' = {}
  /\ bReg' = Registered
  /\ tickDue' = {}
  /\ tickTried' = {}
  /\ UNCHANGED <<reqVars, ioVars, now, devVars, cd, stop, regVars, prevStart,
                 lastGap>>

\* all_plc_data holds one snapshot per device of plc_clients
BatchUrls == {DevOrder[i] : i \in 1..Len(DevOrder)}

\* lines 258-262: the snapshots (by url) of the payload for socket w
VisibleData(w) ==
  IF allowed[w] # {} THEN {d \in BatchUrls : d \in allowed[w]} ELSE BatchUrls

\* the set object the inner for loop iterates: the one that was the value of
\* the first item's key when the items were listed
IterSet == IF Head(bQueue) \in bStale THEN {} ELSE active[Head(bQueue)]

\* line 256: the iterator of the inner for loop, made on the first next()
CurIter ==
  IF bIter.on THEN bIter
  ELSE [on |-> TRUE, used |-> Cardinality(IterSet), seen |-> {},
        init |-> IterSet]

\* one more send handed over for a socket: it joins the callbacks the
\* event loop has not run yet
Handed(o) == [o EXCEPT !.n = @ + 1, !.q = Append(@, o.n + 1)]

\* lines 256-267: next() yields socket w; its payload is handed to
\* run_coroutine_threadsafe(ws.send_json(payload), loop), which returns at
\* once.  With run, the progress of the coroutine on the event loop is
\* followed in sends; with order, the place of the send among the sends
\* handed over for the socket is followed in outq; without both, the
\* coroutine is left out of the picture.
SchedGive(w, run, order) ==
  /\ pc = "bcast"
  /\ bQueue # <<>>
  /\ Cardinality(IterSet) = CurIter.used
  /\ w \in IterSet \ CurIter.seen
  /\ run => sends[w].tu < MaxInFlight
  /\ order => outq[w].n < MaxHanded
  /\ bIter' = [CurIter EXCEPT !.seen = @ \cup {w}]
  /\ got' = [got EXCEPT ![w] = @ \cup {VisibleData(w)}]
  /\ bSent' = bSent \cup {w}
  /\ sends' = IF run THEN [sends EXCEPT ![w].tu = @ + 1] ELSE sends
  /\ outq' = IF order THEN [outq EXCEPT ![w] = Handed(@)] ELSE outq
  /\ UNCHANGED <<hs, preq, marks, wreq, now, devVars, cd, rd, pc, stop, grants,
                 active, keys, allowed, bQueue, bStale, bReg, histVars>>

SchedHand(w, run) == SchedGive(w, run, FALSE)

SchedSend(w) == SchedHand(w, FALSE)

\* the same, and the event loop starts ws.send_json(payload)
SchedSendRun(w) == SchedHand(w, TRUE)

\* the same, and the send waits for its turn on the event loop
SchedSendQueued(w) == SchedGive(w, FALSE, TRUE)

\* line 256: next() finds the set's size changed: RuntimeError, raised
\* outside the inner try, caught on line 276
SchedSetChanged ==
  /\ pc = "bcast"
  /\ bQueue # <<>>
  /\ Cardinality(IterSet) # CurIter.used
  /\ pc' = "backoff"
  /\ bQueue' = <<>>
  /\ bIter' = NoIter
  /\ bStale' = {}
  /\ UNCHANGED <<reqVars, ioVars, now, devVars, cd, rd, stop, regVars, bSent,
                 bReg, histVars>>

\* line 256: next() ends the inner loop: nothing is left, or the only
\* sockets left were added during the iteration (an added socket lands
\* before or after the iterator's position in the table)
SchedNextItem ==
  /\ pc = "bcast"
  /\ bQueue # <<>>
  /\ Cardinality(IterSet) = CurIter.used
  /\ (IterSet \ CurIter.seen) \subseteq (IterSet \ CurIter.init)
  /\ bQueue' = Tail(bQueue)
  /\ bIter' = NoIter
  /\ UNCHANGED <<reqVars, ioVars, now, devVars, cd, rd, pc, stop, regVars,
                 bStale, bSent, bReg, histVars>>

\* lines 255, 272: the outer loop is over, the inter-tick sleep starts
SchedBroadcastDone ==
  /\ pc = "bcast"
  /\ bQueue = <<>>
  /\ pc' = "sleep"
  /\ bStale' = {}
  /\ UNCHANGED <<reqVars, ioVars, now, devVars, cd, rd, stop, regVars, bQueue,
                 bIter, bSent, bReg, histVars>>

\* a loop whose except clause lets the exception end the thread
WakeToEndsOnError(p) == IF p = "backoff" THEN "stopped" ELSE "loop"

\* lines 240, 272-278: after either sleep the while condition is next
WakeTo(p) == "loop"

\* lines 272-278: the inter-tick sleep, or the sleep after an exception, ends
SchedWake ==
  /\ pc \in {"sleep", "backoff"}
  /\ pc' = WakeTo(pc)
  /\ bSent' = {}
  /\ bReg' = {}
  /\ UNCHANGED <<reqVars, ioVars, now, devVars, cd, rd, stop, regVars, bQueue,
                 bStale, bIter, histVars>>

-----------------------------------------------------------------------------
(* The event loop thread *)

\* a pull query is inside executor.map
PullActive == \E d \in Urls : rd["pull"][d].pc # "idle"

\* the event loop thread is inside a blocking call of a handler: the
\* executor.map of get_initial_data or the device I/O of write_plc_value
LoopBusy == PullActive \/ wreq.pc = "io"

\* lines 416-421 and 468-475: the urls user u may see
AllowedUrls(u) ==
  IF IsSuperuser(u) THEN Urls ELSE {ParkUrl(p) : p \in grants}

\* get_initial_data, lines 413-424: read the visible devices in the executor
PullStart(u) ==
  /\ ~stop
  /\ ~LoopBusy
  /\ AllowedUrls(u) # {}
  /\ rd' = Submitted("pull", {d \in Urls : d \in AllowedUrls(u)})
  /\ UNCHANGED <<reqVars, ioVars, now, devVars, cd, pc, stop, regVars, bcVars,
                 histVars>>

\* get_initial_data, lines 424-425: the reads returned, the response is sent
PullDone ==
  /\ PullActive
  /\ RdJoin("pull") = "ok"
  /\ rd' = [rd EXCEPT !["pull"] = [d \in Urls |-> IdleRead]]
  /\ UNCHANGED <<reqVars, ioVars, now, devVars, cd, pc, stop, regVars, bcVars,
                 histVars>>

\* a filter that takes an empty visibility set for "no filter"
VisibleClientsEmptyIsAll(al) ==
  IF al # {} THEN {d \in Urls : d \in al} ELSE Urls

\* line 423: visible_clients = [p for p in plc_clients if p.url in allowed]
VisibleClients(al) == {d \in Urls : d \in al}

\* get_initial_data, lines 413-424, with the request and its response
\* followed in preq: user u's visibility set is resolved and the visible
\* devices are read in the executor; with none visible the response is
\* ready at once
PullPost(u) ==
  /\ ~stop
  /\ ~LoopBusy
  /\ rd' = Submitted("pull", VisibleClients(AllowedUrls(u)))
  /\ preq' = [NoPull EXCEPT !.user = u,
                            !.code = IF VisibleClients(AllowedUrls(u)) = {}
                                       THEN "200" ELSE ""]
  /\ UNCHANGED <<hs, outq, marks, ioVars, now, devVars, cd, pc, stop, regVars,
                 bcVars, histVars>>

\* get_initial_data, lines 424-425: the reads returned; the response holds
\* the snapshots executor.map yielded
PullAnswer ==
  /\ PullActive
  /\ RdJoin("pull") = "ok"
  /\ rd' = [rd EXCEPT !["pull"] = [d \in Urls |-> IdleRead]]
  /\ preq' = [preq EXCEPT !.code = "200",
                          !.resp = {d \in Urls : rd["pull"][d].pc = "done"}]
  /\ UNCHANGED <<hs, outq, marks, ioVars, now, devVars, cd, pc, stop, regVars,
                 bcVars, histVars>>

\* grant_user_park (parks_routes.py)
Grant(p) ==
  /\ ~stop
  /\ ~LoopBusy
  /\ p \notin grants
  /\ grants' = grants \cup {p}
  /\ UNCHANGED <<reqVars, ioVars, now, devVars, cd, rd, pc, stop, active, keys,
                 allowed, got, bcVars, histVars>>

\* a revocation that also narrows the sets of the user's open channels
ChannelSetsAfterRevokeLive(p) ==
  [w \in Sockets |-> IF w \in active["X"] THEN allowed[w] \ {ParkUrl(p)}
                     ELSE allowed[w]]

\* revoke_user_park deletes the row of user_park_access and nothing else:
\* the allowed_urls attached to the open websockets stay as they are
ChannelSetsAfterRevoke(p) == allowed

\* revoke_user_park (parks_routes.py)
Revoke(p) ==
  /\ ~stop
  /\ ~LoopBusy
  /\ p \in grants
  /\ grants' = grants \ {p}
  /\ allowed' = ChannelSetsAfterRevoke(p)
  /\ UNCHANGED <<reqVars, ioVars, now, devVars, cd, rd, pc, stop, active, keys,
                 got, bcVars, histVars>>

\* s without its elements equal to x
RECURSIVE Without(_, _)
Without(s, x) ==
  IF s = <<>> THEN <<>>
  ELSE IF Head(s) = x THEN Without(Tail(s), x)
  ELSE <<Head(s)>> \o Without(Tail(s), x)

InSeq(s, x) == \E i \in 1..Len(s) : s[i] = x

\* the credentials a handshake presents: none on any of the three
\* transports, a token read_token rejects, a token naming no user, and
\* tokens of an inactive and of active users
Creds ==
  {[user |-> "", kind |-> "missing"], [user |-> "", kind |-> "invalid"],
   [user |-> "", kind |-> "unknown"], [user |-> "X", kind |-> "inactive"]}
    \cup {[user |-> u, kind |-> "valid"] : u \in Users}

\* the outcomes of the park query of the handshake (line 471)
DbOutcomes == {"ok", "fails"}

\* user_from_token, lines 320-325, with get_user_by_id, lines 310-318: the
\* user of the token's sub, "" (None) when read_token or the lookup raises
\* or finds no row
UserFromToken(c) == IF c.kind \in {"valid", "inactive"} THEN c.user ELSE ""

\* user.is_active of the row found for credential c
IsActive(c) == c.kind = "valid"

\* the handshake without the is_active test of line 461
HandshakeClosesIgnoresActive(c) ==
  c.kind = "missing" \/ UserFromToken(c) = ""

\* ws_endpoint, lines 455-464: no token, or no user, or an inactive one:
\* close(code=1008) and return
HandshakeCloses(c) ==
  c.kind = "missing" \/ UserFromToken(c) = "" \/ ~IsActive(c)

\* ws_endpoint, lines 466-475: the park query is made for a user who is
\* not a superuser; when session.execute raises nothing catches it and the
\* handler ends with the exception
QueryRaises(c, db) == ~IsSuperuser(UserFromToken(c)) /\ db = "fails"

\* what the handshake leaves behind for the socket
HandshakeCode(c, db) ==
  IF HandshakeCloses(c) THEN "1008"
  ELSE IF QueryRaises(c, db) THEN "fault" ELSE "open"

\* ws_endpoint, lines 434-480: socket w is accepted with credential c and
\* the park query ends as db.  The handler closes the socket (lines 455-464),
\* or ends with the exception of the query, or attaches the allowed urls
\* and registers the socket.  With track, the outcome is noted in hs.
WsOpen(w, c, db, track) ==
  /\ ~stop
  /\ ~LoopBusy
  /\ w \notin Registered
  /\ hs' = IF track
             THEN [hs EXCEPT ![w] = [cred |-> c, db |-> db,
                                     code |-> HandshakeCode(c, db)]]
             ELSE hs
  /\ IF HandshakeCode(c, db) = "open"
       THEN LET u == UserFromToken(c)
            IN /\ allowed' = [allowed EXCEPT ![w] = AllowedUrls(u)]
               /\ active' = [active EXCEPT ![u] = @ \cup {w}]
               /\ keys' = IF InSeq(keys, u) THEN keys ELSE Append(keys, u)
       ELSE UNCHANGED <<allowed, active, keys>>
  /\ UNCHANGED <<preq, outq, marks, ioVars, now, devVars, cd, rd, pc, stop,
                 grants, got, bcVars, histVars>>

\* ws_endpoint, lines 460-480: the token resolved to the active user u and
\* the park query returned
WsConnect(w, u) == WsOpen(w, [user |-> u, kind |-> "valid"], "ok", FALSE)

\* the same for any credential and query outcome, noted in hs
WsHandshake(w, c, db) == WsOpen(w, c, db, TRUE)

\* a cleanup that leaves the key of an emptied set in the registry
PopsKeyNever(conns) == FALSE

\* ws_endpoint, lines 496-497: the set is empty after the discard, its key
\* is popped
PopsKey(conns) == conns = {}

\* ws_endpoint, lines 482-498: the keepalive send failed or the handler was
\* disconnected; the finally block discards the socket, and pops the key of
\* an emptied set (a set the broadcast holds stays empty from then on)
WsClose(w) ==
  /\ ~LoopBusy
  /\ w \in Registered
  /\ LET u == UserOf(w)
         popped == PopsKey(active[u] \ {w})
     IN /\ active' = [active EXCEPT ![u] = @ \ {w}]
        /\ keys' = IF popped THEN Without(keys, u) ELSE keys
        /\ bStale' = IF popped /\ InSeq(bQueue, u)
                       THEN bStale \cup {u} ELSE bStale
  /\ allowed' = [allowed EXCEPT ![w] = {}]
  /\ got' = [got EXCEPT ![w] = {}]
  /\ bIter' = [bIter EXCEPT !.seen = @ \ {w}, !.init = @ \ {w}]
  /\ bSent' = bSent \ {w}
  /\ bReg' = bReg \ {w}
  /\ sends' = [sends EXCEPT ![w] = NoSends]
  /\ hs' = [hs EXCEPT ![w] = NoHandshake]
  /\ outq' = [outq EXCEPT ![w] = NoOrder]
  /\ UNCHANGED <<preq, marks, wreq, now, devVars, cd, rd, pc, stop, grants,
                 bQueue, histVars>>

\* on_shutdown, lines 295-296: set stop_event, shut the executor down and
\* cancel the futures that have not started
Shutdown ==
  /\ ~stop
  /\ ~LoopBusy
  /\ stop' = TRUE
  /\ cd' = [d \in Urls |-> IF cd[d] = "queued" THEN "cancelled" ELSE cd[d]]
  /\ rd' = [o \in Owners |-> [d \in Urls |->
              IF rd[o][d].pc = "queued"
                THEN [IdleRead EXCEPT !.pc = "cancelled"] ELSE rd[o][d]]]
  /\ UNCHANGED <<reqVars, ioVars, now, devVars, pc, regVars, bcVars, histVars>>

\* an event loop that runs the newest callback first
StartNewest(o) ==
  [o EXCEPT !.q = SubSeq(@, 1, Len(@) - 1), !.last = o.q[Len(o.q)]]

\* line 267: run_coroutine_threadsafe hands the coroutine over with
\* loop.call_soon_threadsafe; the event loop runs its callbacks in the
\* order they were added, so the oldest send handed over starts next
StartNext(o) == [o EXCEPT !.q = Tail(@), !.last = Head(o.q)]

\* line 267: the event loop starts the next ws.send_json(payload) scheduled
\* for socket w, which passes the message to the server before its first
\* wait
LoopStartsSend(w) ==
  /\ ~LoopBusy
  /\ outq[w].q # <<>>
  /\ outq' = [outq EXCEPT ![w] = StartNext(@)]
  /\ UNCHANGED <<hs, preq, marks, ioVars, now, devVars, cd, rd, pc, stop,
                 regVars, bcVars, histVars>>

\* ws_endpoint, lines 484-486: the handler of socket w wakes from its
\* sleep and awaits websocket.send_json({"type": "keepalive"})
KeepaliveBegin(w) ==
  /\ ~LoopBusy
  /\ w \in Registered
  /\ ~sends[w].ka
  /\ sends' = [sends EXCEPT ![w].ka = TRUE]
  /\ UNCHANGED <<reqVars, wreq, now, devVars, cd, rd, pc, stop, regVars,
                 bcVars, histVars>>

\* ws_endpoint, lines 483-486: the keepalive send returned, the handler
\* sleeps again
KeepaliveDone(w) ==
  /\ ~LoopBusy
  /\ sends[w].ka
  /\ sends' = [sends EXCEPT ![w].ka = FALSE]
  /\ UNCHANGED <<reqVars, wreq, now, devVars, cd, rd, pc, stop, regVars,
                 bcVars, histVars>>

\* ws_endpoint, lines 487-498: the keepalive send raised; break, and the
\* finally block unregisters the socket
KeepaliveFail(w) ==
  /\ sends[w].ka
  /\ WsClose(w)

\* a ws.send_json(payload) the broadcast scheduled (line 267) returned
TelemetryDone(w) ==
  /\ ~LoopBusy
  /\ sends[w].tu > 0
  /\ sends' = [sends EXCEPT ![w].tu = @ - 1]
  /\ UNCHANGED <<reqVars, wreq, now, devVars, cd, rd, pc, stop, regVars,
                 bcVars, histVars>>

\* a ws.send_json(payload) the broadcast scheduled (line 267) raised: the
\* exception is stored in the future run_coroutine_threadsafe returned,
\* which line 267 dropped; no code runs on it
TelemetryFail(w) ==
  /\ ~LoopBusy
  /\ sends[w].tu > 0
  /\ sends' = [sends EXCEPT ![w].tu = @ - 1, ![w].bad = TRUE]
  /\ UNCHANGED <<reqVars, wreq, now, devVars, cd, rd, pc, stop, regVars,
                 bcVars, histVars>>

\* the endpoints a write request names: the devices, and one that is not
\* in plc_clients
WriteUrls == Urls \cup {"Z"}

\* the node names a write request carries: a tag of device A, and a name no
\* device has
WriteNodes == {"t1", "t9"}

\* WriteRequest.value, lines 134-137: a number is a float or an int, held
\* here in tenths (x10); 3.0, 3.7 and -3.7 as floats, and the int 3
WriteValues ==
  {[kind |-> "float", x10 |-> 30], [kind |-> "float", x10 |-> 37],
   [kind |-> "float", x10 |-> 0 - 37], [kind |-> "int", x10 |-> 30]}

\* the value of the requests that are posted with no value of interest
PlainValue == [kind |-> "int", x10 |-> 30]

\* line 391: node.get_data_type_as_variant_type() of the device's tags: t1
\* is an Int32, t2 a Double
VariantTypeOf(node) == IF node = "t1" THEN "Int32" ELSE "Double"

\* Python's int() of a float, in tenths: truncation toward zero
IntOf(x10) ==
  IF x10 >= 0 THEN (x10 \div 10) * 10 ELSE 0 - (((0 - x10) \div 10) * 10)

\* line 392: v = int(req.value) if isinstance(req.value, float) else
\* req.value
Coerce(val) ==
  IF val.kind = "float" THEN [kind |-> "int", x10 |-> IntOf(val.x10)]
  ELSE val

\* a write_plc_value whose failure marks the device
WriteFailStatusError(cur) == "ERROR"

\* lines 397-399: what a failed write does to the device's status
WriteFailStatus(cur) == cur

\* write_plc_value, lines 382-389: the checks before the device is touched
WriteCheck(u, url, node) ==
  IF ~IsSuperuser(u) THEN "403 Write requires superuser privileges."
  ELSE IF url \notin Urls \/ status[url] # "CONNECTED"
    THEN "404 PLC not connected."
  ELSE IF node \notin nodes[url] THEN "404 Node not found."
  ELSE "pass"

\* write_plc_value, lines 382-391: user u posts a write of val to node on
\* url; a failed check is answered at once, else the handler takes the node
\* handle and blocks in the device I/O
WritePost(u, url, node, val) ==
  /\ ~stop
  /\ ~LoopBusy
  /\ wreq' = IF WriteCheck(u, url, node) = "pass"
               THEN [NoWrite EXCEPT !.pc = "io", !.url = url, !.node = node,
                                    !.val = val]
               ELSE [NoWrite EXCEPT !.res = WriteCheck(u, url, node)]
  /\ UNCHANGED <<reqVars, sends, now, devVars, cd, rd, pc, stop, regVars,
                 bcVars, histVars>>

\* the same, for a request whose value is of no interest
WriteStart(u, url, node) == WritePost(u, url, node, PlainValue)

\* write_plc_value, lines 391-396: set_attribute returned, the device has
\* ua.Variant(v, vt)
WriteOk ==
  /\ wreq.pc = "io"
  /\ wreq' = [wreq EXCEPT !.pc = "idle", !.res = "success",
                          !.wrote = [vt |-> VariantTypeOf(wreq.node),
                                     v |-> Coerce(wreq.val)]]
  /\ UNCHANGED <<reqVars, sends, now, devVars, cd, rd, pc, stop, regVars,
                 bcVars, histVars>>

\* write_plc_value, lines 397-399: the device I/O raised
WriteFail ==
  /\ wreq.pc = "io"
  /\ wreq' = [wreq EXCEPT !.pc = "idle", !.res = "500 Write failed"]
  /\ status' = [status EXCEPT ![wreq.url] = WriteFailStatus(@)]
  /\ UNCHANGED <<reqVars, sends, now, client, nodes, last, cd, rd, pc, stop,
                 regVars, bcVars, histVars>>

-----------------------------------------------------------------------------
DeviceStep ==
  \/ \E d \in Urls : CDStart(d) \/ CDSucceed(d) \/ CDFail(d)
  \/ \E o \in Owners, d \in Urls :
       \/ RdStart(o, d)
       \/ RdIds(o, d)
       \/ RdNames(o, d)
       \/ RdReturnOk(o, d)
       \/ \E kind \in {"ua", "other"} : RdReturnFail(o, d, kind)

SchedStep ==
  \/ SchedTick
  \/ SchedReconnected
  \/ SchedRead
  \/ SchedBroadcastDone
  \/ SchedWake

\* The supervisor side: the scheduler's sweeps, the pull queries of user X
\* (who sees device A) racing with them, the clock and the shutdown; no
\* websocket connects.
Next ==
  \/ Tick
  \/ DeviceStep
  \/ SchedStep
  \/ SchedStop
  \/ SchedSweepRaised
  \/ \E u \in PullUsers : PullStart(u)
  \/ PullDone
  \/ Shutdown

Spec == Init /\ [][Next]_vars

\* The subscriber side: websockets connect and close and grants change
\* while the scheduler ticks and broadcasts; the clock stands still and no
\* pull query or shutdown arrives.
NextWs ==
  \/ DeviceStep
  \/ SchedStep
  \/ \E w \in Sockets : SchedSend(w)
  \/ SchedSetChanged
  \/ SchedNextItem
  \/ \E w \in Sockets, u \in Users : WsConnect(w, u)
  \/ \E w \in Sockets : WsClose(w)
  \/ \E p \in Parks : Grant(p) \/ Revoke(p)

SpecWs == Init /\ [][NextWs]_vars

\* The sends: as the subscriber side without grant changes, and the event
\* loop runs the send_json coroutines of the broadcast and of the
\* keepalives; a socket closes when its keepalive fails.
NextSend ==
  \/ DeviceStep
  \/ SchedStep
  \/ \E w \in Sockets : SchedSendRun(w)
  \/ SchedSetChanged
  \/ SchedNextItem
  \/ \E w \in Sockets, u \in Users : WsConnect(w, u)
  \/ \E w \in Sockets :
       \/ KeepaliveBegin(w)
       \/ KeepaliveDone(w)
       \/ KeepaliveFail(w)
       \/ TelemetryDone(w)
       \/ TelemetryFail(w)

SpecSend == Init /\ [][NextSend]_vars

\* The write command: superuser and plain user post writes while the
\* scheduler ticks, reads and broadcasts and websockets come and go; the
\* clock stands still, so a connected device is not reconnected while a
\* write is served and the node handle a write holds stays that of the live
\* client.
NextWrite ==
  \/ DeviceStep
  \/ SchedStep
  \/ \E w \in Sockets : SchedSend(w)
  \/ SchedSetChanged
  \/ SchedNextItem
  \/ \E w \in Sockets, u \in Users : WsConnect(w, u)
  \/ \E w \in Sockets : WsClose(w)
  \/ \E u \in Users, url \in WriteUrls, node \in WriteNodes :
       WriteStart(u, url, node)
  \/ WriteOk
  \/ WriteFail

SpecWrite == Init /\ [][NextWrite]_vars

\* The written value: writes of floats and ints to the Int32 and the Double
\* tag of device A, and to device B, while the scheduler ticks.
NextValue ==
  \/ DeviceStep
  \/ SchedStep
  \/ \E u \in Users, url \in Urls, node \in {"t1", "t2"},
        val \in WriteValues : WritePost(u, url, node, val)
  \/ WriteOk
  \/ WriteFail

SpecValue == Init /\ [][NextValue]_vars

\* The pull query: the plain user and the superuser post /data while the
\* plain user's grants change and the scheduler ticks.
NextPull ==
  \/ DeviceStep
  \/ SchedStep
  \/ \E u \in Users : PullPost(u)
  \/ PullAnswer
  \/ \E p \in Parks : Grant(p) \/ Revoke(p)

SpecPull == Init /\ [][NextPull]_vars

\* The handshake: sockets present every kind of credential and the park
\* query succeeds or fails, while the scheduler ticks and broadcasts and
\* the handlers send their keepalives; a socket closes when its keepalive
\* fails.
NextHs ==
  \/ DeviceStep
  \/ SchedStep
  \/ \E w \in Sockets : SchedSend(w)
  \/ SchedSetChanged
  \/ SchedNextItem
  \/ \E w \in Sockets, c \in Creds, db \in DbOutcomes : WsHandshake(w, c, db)
  \/ \E w \in Sockets :
       \/ KeepaliveBegin(w)
       \/ KeepaliveDone(w)
       \/ KeepaliveFail(w)

SpecHs == Init /\ [][NextHs]_vars

\* The order of the sends: websockets come and go while the scheduler ticks
\* and broadcasts, and the event loop starts the sends handed to it.
NextOrder ==
  \/ DeviceStep
  \/ SchedStep
  \/ \E w \in Sockets : SchedSendQueued(w)
  \/ SchedSetChanged
  \/ SchedNextItem
  \/ \E w \in Sockets, u \in Users : WsConnect(w, u)
  \/ \E w \in Sockets : WsClose(w)
  \/ \E w \in Sockets : LoopStartsSend(w)

SpecOrder == Init /\ [][NextOrder]_vars

\* The discovery: the devices are connected, every discovery runs into some
\* node faults or into none, and the scheduler reads what was discovered;
\* the clock stands still.
NextTree ==
  \/ \E d \in Urls : CDStart(d) \/ CDFail(d)
  \/ \E d \in Urls : \E m \in FaultSets(d) : CDSucceedWith(d, m)
  \/ \E d \in Urls :
       \/ RdStart("sched", d)
       \/ RdIds("sched", d)
       \/ RdNames("sched", d)
       \/ RdReturnOk("sched", d)
       \/ \E kind \in {"ua", "other"} : RdReturnFail("sched", d, kind)
  \/ SchedStep

SpecTree == Init /\ [][NextTree]_vars

\* the steps of the scheduler thread
SchedThread ==
  \/ SchedStep
  \/ SchedStop
  \/ SchedSweepRaised
  \/ \E w \in Sockets : SchedSend(w)
  \/ SchedSetChanged
  \/ SchedNextItem

\* The life of the scheduler thread: websockets come and go and the
\* shutdown may arrive at any point.  The scheduler thread runs as long as
\* it has a step to take, and every worker task ends: connect() and
\* get_values() return or time out (Client(url, timeout=40)).
NextLive ==
  \/ DeviceStep
  \/ SchedThread
  \/ \E w \in Sockets, u \in Users : WsConnect(w, u)
  \/ \E w \in Sockets : WsClose(w)
  \/ Shutdown

SpecLive ==
  /\ Init
  /\ [][NextLive]_vars
  /\ WF_vars(SchedThread)
  /\ WF_vars(DeviceStep)

-----------------------------------------------------------------------------
(* Visibility of the broadcast (SpecWs) *)

\* C1: every telemetry_update handed to a registered socket holds only
\* snapshots of devices in the visibility set resolved for the socket at its
\* handshake, whatever that set is, the empty set included.
C1_OnlyVisibleDelivered ==
  \A w \in Registered : \A p \in got[w] : p \subseteq allowed[w]

\* C2: broadcast hands each socket exactly the snapshots of the batch whose
\* url is in the socket's visibility set, and the whole batch past the filter
\* only to a socket of a superuser.
C2_ExactSubBatch ==
  \A w \in Registered : \A p \in got[w] :
    /\ p = BatchUrls \cap allowed[w]
    /\ p = BatchUrls =>
         (IsSuperuser(UserOf(w)) \/ BatchUrls \subseteq allowed[w])

\* C3: when a tick's broadcast is over, normally or not, every socket that
\* was registered from its start to its end was sent the tick's
\* telemetry_update, also when another socket was removed meanwhile.
C3_OthersStillSent ==
  pc \in {"sleep", "backoff"} => bReg \subseteq bSent

-----------------------------------------------------------------------------
(* The reconnect cooldown (Spec) *)

\* C4: no connect_and_discover of a device starts before the cooldown has
\* elapsed since the start of the device's previous connect_and_discover.
C4_CooldownBetweenStarts ==
  \A d \in Urls : lastGap[d] = None \/ lastGap[d] >= Cooldown

\* a device is being retried: its connect_and_discover runs, and it is not
\* its first
C4_Witness ==
  \E d \in Urls : cd[d] = "running" /\ lastGap[d] # None

\* C5: when the reconnect sweep of a tick is over, every device that was
\* Disconnected or Error with its cooldown elapsed at the start of the tick
\* has had connect_and_discover invoked on it in this tick.
C5_DueIsTried ==
  pc = "read" => tickDue \subseteq tickTried

\* a device that failed before was due again and retried in this tick
C5_Witness ==
  /\ pc = "read"
  /\ \E d \in tickDue : d \in tickTried /\ lastGap[d] # None

-----------------------------------------------------------------------------
(* The status machine (Spec) *)

\* C6: no step takes a device's status from Disconnected directly to Error.
C6_NoDisconnectedToError ==
  [][\A d \in Urls :
       status[d] = "DISCONNECTED" => status'[d] # "ERROR"]_vars

\* the changes of status the state machine of a device allows
AllowedChanges ==
  { <<"DISCONNECTED", "CONNECTING">>, <<"ERROR", "CONNECTING">>,
    <<"CONNECTING", "CONNECTED">>, <<"CONNECTING", "DISCONNECTED">>,
    <<"CONNECTED", "ERROR">>, <<"CONNECTED", "DISCONNECTED">> }

\* C7: every device starts Disconnected and every change of its status is
\* one of AllowedChanges.
C7_OnlyAllowedChanges ==
  /\ \A d \in Urls : status[d] = "DISCONNECTED"
  /\ [][\A d \in Urls :
          status'[d] # status[d] =>
            <<status[d], status'[d]>> \in AllowedChanges]_vars

\* C8: the step that ends a connect_and_discover leaves either status
\* Connected with the node map the discovery found, or status Disconnected
\* with the client handle cleared; never Connecting.
C8_ConnectOutcome ==
  [][\A d \in Urls :
       (cd[d] = "running" /\ cd'[d] # "running") =>
          \/ /\ cd'[d] = "ok"
             /\ status'[d] = "CONNECTED"
             /\ nodes'[d] = PlcTags(d)
          \/ /\ cd'[d] = "fail"
             /\ status'[d] = "DISCONNECTED"
             /\ ~client'[d]]_vars

\* a connect_and_discover has failed
C8_Witness ==
  \E d \in Urls :
    cd[d] = "fail" /\ status[d] = "DISCONNECTED" /\ ~client[d]

\* C9: a read_data that starts on a device that is not Connected returns
\* at once (no get_values) the snapshot with the current status and no
\* tags and no error, and changes nothing of the device.
C9_SoftReadWhenNotConnected ==
  [][\A o \in Owners, d \in Urls :
       (/\ rd[o][d].pc = "queued"
        /\ rd'[o][d].pc \notin {"queued", "cancelled"}
        /\ status[d] # "CONNECTED") =>
          /\ rd'[o][d] = DoneRead(status[d], {}, "")
          /\ status'[d] = status[d]
          /\ nodes'[d] = nodes[d]
          /\ client'[d] = client[d]]_vars

\* a read_data on a device in Error, with its client handle still set,
\* returned the status-only snapshot
C9_Witness ==
  \E o \in Owners, d \in Urls :
    /\ rd[o][d] = DoneRead("ERROR", {}, "")
    /\ status[d] = "ERROR"
    /\ client[d]

\* C10: a read_data whose get_values fails returns a snapshot: with the
\* protocol error string and the status set to Error, or with the
\* transient note and the status as it was.
C10_TwoFailureTiers ==
  [][\A o \in Owners, d \in Urls :
       (rd[o][d].pc \in {"names", "io"} /\ rd'[o][d].pc = "done") =>
          /\ rd'[o][d].err = "OPC UA read error" => status'[d] = "ERROR"
          /\ rd'[o][d].err = "Temporary read failure." =>
                status'[d] = status[d]]_vars

\* a read on a Connected device failed transiently and the device is still
\* Connected
C10_Witness ==
  \E o \in Owners, d \in Urls :
    /\ rd[o][d].pc = "done"
    /\ rd[o][d].err = "Temporary read failure."
    /\ rd[o][d].st = "CONNECTED"
    /\ status[d] = "CONNECTED"

-----------------------------------------------------------------------------
(* The node map (Spec and SpecWs) *)

\* C11: a read_data of the read sweep that found the device Connected (the
\* sweep follows the reconnect sweep, so right after a successful
\* connect_and_discover) and whose get_values did not fail returns a snapshot
\* with status CONNECTED and no error field, also on a device that exposes
\* no readable tag.
C11_ReadAfterConnectHasNoError ==
  \A d \in Urls :
    (/\ rd["sched"][d].pc = "done"
     /\ rd["sched"][d].st = "CONNECTED"
     /\ rd["sched"][d].err \notin {ReadFailNote("ua"), ReadFailNote("other")})
      => rd["sched"][d].err = ""

\* C13: while the broadcast iterates the set of a user, no register or
\* unregister changes that set or the keys of the registry.
C13_RegistryExclusive ==
  [][(pc = "bcast" /\ bQueue # <<>> /\ bIter.on) =>
        /\ active'[Head(bQueue)] = active[Head(bQueue)]
        /\ keys' = keys]_vars

\* C17: a read_data that runs while a connect_and_discover of the same
\* device may run takes its handles from a complete node map of the device,
\* never from the emptied one, and its tag names from the same map as its
\* handles.
C17_ReadersSeeCompleteMap ==
  \A o \in Owners, d \in Urls :
    /\ rd[o][d].pc \in {"names", "io"} => rd[o][d].ids = PlcTags(d)
    /\ rd[o][d].pc = "io" => rd[o][d].names = rd[o][d].ids

\* C18: a device whose status is Connected has the complete node map of its
\* latest successful discovery (empty only if the device has no readable
\* tag) and a client handle that is not None.
C18_ConnectedHasMapAndClient ==
  \A d \in Urls :
    status[d] = "CONNECTED" => (nodes[d] = PlcTags(d) /\ client[d])

\* both devices are Connected, the one with tags and the one without, after
\* a failed attempt and a retry of one of them
C18_Witness ==
  /\ \A d \in Urls : status[d] = "CONNECTED" /\ cd[d] = "idle"
  /\ \E d \in Urls : lastGap[d] # None

-----------------------------------------------------------------------------
(* The sends on a socket (SpecSend) *)

\* C12: a socket to which the delivery of a telemetry_update has failed is
\* out of the registry when the broadcast of a later tick starts, and no
\* broadcast hands it a payload any more.
C12_FailedSocketNotTargeted ==
  [][\A w \in Sockets :
       sends[w].bad =>
         /\ (pc = "read" /\ pc' = "bcast") => w \notin Registered
         /\ w \notin (bSent' \ bSent)]_vars

\* C14: on every socket at most one send_json is in progress: never a
\* keepalive together with a telemetry_update, never two telemetry_updates.
C14_OneWriterPerSocket ==
  \A w \in Sockets :
    (IF sends[w].ka THEN 1 ELSE 0) + sends[w].tu <= 1

-----------------------------------------------------------------------------
(* The life of the scheduler thread (SpecLive) *)

\* C15: the scheduler loop ends only after the shutdown was signalled, and
\* an exception caught in a tick (the thread is in the sleep of the except
\* clause) is followed, after that sleep, by another tick, unless the
\* shutdown arrives first.
C15_LoopSurvivesExceptions ==
  /\ [](pc = "stopped" => stop)
  /\ (pc = "backoff" /\ ~stop) ~> (pc \in {"reconnect", "read"} \/ stop)

\* an exception of the fan-out was caught with no shutdown signalled
C15_Witness ==
  pc = "backoff" /\ ~stop /\ bSent # {}

\* C16: once stop_event is set the scheduler loop stops; from then on no
\* tick body starts and the executor takes no new task; the shutdown
\* cancels every task that has not started.
C16_ShutdownStopsLoop ==
  /\ stop ~> (pc = "stopped")
  /\ [][/\ stop =>
             /\ ~(pc = "loop" /\ pc' \in {"reconnect", "read"})
             /\ \A d \in Urls : cd'[d] = "queued" => cd[d] = "queued"
             /\ \A o \in Owners, d \in Urls :
                  rd'[o][d].pc = "queued" => rd[o][d].pc = "queued"
        /\ (~stop /\ stop') =>
             /\ \A d \in Urls : cd'[d] # "queued"
             /\ \A o \in Owners, d \in Urls : rd'[o][d].pc # "queued"]_vars

\* the loop has stopped after a shutdown that cancelled a task of a sweep
C16_Witness ==
  /\ pc = "stopped"
  /\ \E d \in Urls : cd[d] = "cancelled" \/ rd["sched"][d].pc = "cancelled"

-----------------------------------------------------------------------------
(* The write command (SpecWrite) *)

\* the failure responses of write_plc_value: HTTP status and detail
WriteErrors ==
  {"403 Write requires superuser privileges.", "404 PLC not connected.",
   "404 Node not found.", "500 Write failed"}

\* C19: every change of a device's status, node map or last-attempt time
\* comes with a step of that device's connect_and_discover or read_data; a
\* step of write_plc_value, of a register or unregister, or of the
\* broadcast changes none of them; and a write that is not performed is
\* answered with an HTTP error with its detail.
C19_OnlySupervisorTouchesDevice ==
  [][/\ \A d \in Urls :
          (status'[d] # status[d] \/ nodes'[d] # nodes[d]
             \/ last'[d] # last[d]) =>
            (cd'[d] # cd[d] \/ \E o \in Owners : rd'[o][d] # rd[o][d])
     /\ (wreq' # wreq \/ active' # active \/ bSent' # bSent) =>
          (status' = status /\ nodes' = nodes /\ last' = last)
     /\ (wreq' # wreq /\ wreq'.pc = "idle" /\ wreq'.res # "success") =>
          wreq'.res \in WriteErrors]_vars

\* a write to a Connected device failed and the device is still Connected
C19_Witness ==
  /\ wreq.pc = "idle"
  /\ wreq.res = "500 Write failed"
  /\ status["A"] = "CONNECTED"

\* C20: a write reaches the device only for a configured device whose
\* status is Connected when the value is written and whose node map holds
\* the tag; a request that does not pass is answered with a failure and
\* writes nothing.
C20_WriteOnlyWhenConnected ==
  [][/\ (wreq.pc = "io" /\ wreq'.res = "success") =>
          /\ wreq.url \in Urls
          /\ status[wreq.url] = "CONNECTED"
          /\ wreq.node \in nodes[wreq.url]
     /\ (wreq.pc = "idle" /\ wreq' # wreq) =>
          \/ wreq'.pc = "io" /\ status[wreq'.url] = "CONNECTED"
                /\ wreq'.node \in nodes[wreq'.url]
          \/ wreq'.pc = "idle" /\ wreq'.res \in WriteErrors]_vars

-----------------------------------------------------------------------------
(* The written value (SpecValue) *)

\* the variant types that hold integers
IntegralTypes == {"Int32"}

\* C21: a write that succeeds writes the number truncated to an integer if
\* the value is a float and the target's type is integral, and the number
\* as supplied in every other case, a float written to a Double target
\* included.
C21_TruncatesOnlyForIntegralTarget ==
  wreq.res = "success" =>
    wreq.wrote.v.x10 = IF wreq.val.kind = "float"
                            /\ wreq.wrote.vt \in IntegralTypes
                         THEN IntOf(wreq.val.x10)
                         ELSE wreq.val.x10

-----------------------------------------------------------------------------
(* The pull query (SpecPull) *)

\* C22: the response of a pull query holds a snapshot of exactly the
\* configured devices in the caller's visibility set: of every device for a
\* superuser, of the granted ones for a plain user, of none for a user with
\* no grant.
C22_PullReturnsVisibleOnly ==
  [][(preq' # preq /\ preq'.code = "200") =>
        preq'.resp = Urls \cap AllowedUrls(preq'.user)]_vars

\* a user with no grant was answered, with no snapshot
C22_Witness ==
  /\ preq.code = "200"
  /\ preq.user = "X"
  /\ grants = {}
  /\ preq.resp = {}

-----------------------------------------------------------------------------
(* The registry and the handshake (SpecWs, SpecHs) *)

\* C23: the visibility set of a socket is the one resolved from the user's
\* grants at its handshake and stays the same for as long as the socket is
\* registered, whatever is granted or revoked meanwhile.
C23_ChannelSetFixedAtHandshake ==
  [][\A w \in Sockets :
       /\ (w \in Registered /\ w \in Registered') =>
             allowed'[w] = allowed[w]
       /\ (w \notin Registered /\ w \in Registered') =>
             \E u \in Users :
               w \in active'[u] /\ allowed'[w] = AllowedUrls(u)]_vars

\* two sockets of the plain user are open with different visibility sets:
\* the grants changed between their handshakes
C23_Witness ==
  \E v \in active["X"], w \in active["X"] : allowed[v] # allowed[w]

\* C24: a registered socket presented the token of an existing, active user
\* and is registered under that user; a socket whose handshake was closed
\* with the policy violation code is in no set of the registry, was handed
\* no telemetry_update and sends no keepalive.
C24_RegisteredOnlyAfterActiveUser ==
  \A w \in Sockets :
    /\ w \in Registered =>
         /\ hs[w].code = "open"
         /\ hs[w].cred.kind = "valid"
         /\ hs[w].cred.user \in Users
         /\ w \in active[hs[w].cred.user]
    /\ hs[w].cred.kind \in {"missing", "invalid", "unknown", "inactive"} =>
         /\ hs[w].code = "1008"
         /\ w \notin Registered
         /\ got[w] = {}
         /\ sends[w] = NoSends

\* the token of the inactive user was turned away on one socket while the
\* other socket, registered, was handed a telemetry_update and sends a
\* keepalive
C24_Witness ==
  \E v \in Sockets, w \in Sockets :
    /\ hs[v].cred.kind = "inactive" /\ hs[v].code = "1008"
    /\ w \in Registered /\ got[w] # {} /\ sends[w].ka

\* C25: a handshake whose park query failed leaves the socket open and
\* registered with the empty set of allowed urls, and no snapshot of any
\* device is handed to it.
C25_FailedResolutionIsEmptySet ==
  \A w \in Sockets :
    (hs[w].cred.kind = "valid" /\ ~IsSuperuser(hs[w].cred.user)
       /\ hs[w].db = "fails") =>
      /\ hs[w].code = "open"
      /\ w \in Registered
      /\ allowed[w] = {}
      /\ \A data \in got[w] : data = {}
-----------------------------------------------------------------------------
(* The order of a tick (SpecWs, Spec) *)

\* a step that submits the read sweep of the tick
ReadSweepStarts ==
  \E d \in Urls : rd["sched"][d].pc = "idle" /\ rd'["sched"][d].pc = "queued"

\* a step that hands a telemetry_update to a socket
DeliveryStarts == \E w \in Sockets : got'[w] # got[w] /\ got'[w] # {}

\* C26: within a tick the reconnect sweep, the read sweep, the batch and the
\* broadcast follow one another.  The read sweep is submitted, one read_data
\* per device, only when no connect_and_discover is queued or running; the
\* broadcast starts only from the read sweep, when the read_data of every
\* device has returned its snapshot; and a telemetry_update is handed over
\* only during the broadcast, with no task of either sweep left.
C26_TickOrderWithBarriers ==
  [][/\ ReadSweepStarts =>
          /\ pc \in {"loop", "reconnect"} /\ pc' = "read"
          /\ \A d \in Urls : /\ cd[d] \notin {"queued", "running"}
                             /\ rd'["sched"][d].pc = "queued"
     /\ (pc # "reconnect" /\ pc' = "reconnect") => pc = "loop"
     /\ (pc # "bcast" /\ pc' = "bcast") =>
          /\ pc = "read"
          /\ \A d \in Urls : rd["sched"][d].pc = "done"
     /\ DeliveryStarts =>
          /\ pc = "bcast"
          /\ \A d \in Urls : /\ cd[d] \notin {"queued", "running"}
                             /\ rd["sched"][d].pc = "idle"]_vars

\* a broadcast hands out the batch of a tick that reconnected device A and
\* failed to reconnect device B
C26_Witness ==
  /\ pc = "bcast"
  /\ bSent # {}
  /\ status["A"] = "CONNECTED"
  /\ status["B"] = "DISCONNECTED" /\ last["B"] # None
\* C28: a connect_and_discover is submitted for a device, and later started
\* by a worker, only while the device's status is neither CONNECTED nor
\* CONNECTING, and it is submitted only when no earlier one of the device is
\* still queued or running.
C28_NoReconnectWhileConnected ==
  [][\A d \in Urls :
       /\ (cd[d] # "queued" /\ cd'[d] = "queued") =>
            /\ status[d] \notin {"CONNECTED", "CONNECTING"}
            /\ cd[d] # "running"
       /\ (cd[d] = "queued" /\ cd'[d] = "running") =>
            status[d] \notin {"CONNECTED", "CONNECTING"}]_vars

\* device B is being reconnected a second time while device A, connected
\* by the first sweep, is left alone
C28_Witness ==
  /\ cd["B"] = "running" /\ prevStart["B"] > 0
  /\ cd["A"] = "idle" /\ status["A"] = "CONNECTED"
-----------------------------------------------------------------------------
(* The cleanup of a handler (SpecWs) *)

\* C29: a step that ends the handler of a socket takes that socket, and
\* nothing else, out of the sets of the registry; and after every step the
\* keys of the registry are the users whose set is not empty.
C29_CleanupRemovesOnlyTheChannel ==
  [][/\ \A w \in Sockets :
          (w \in Registered /\ w \notin Registered') =>
            \A u \in Users : active'[u] = active[u] \ {w}
     /\ \A u \in Users : InSeq(keys', u) <=> active'[u] # {}]_vars

\* one of the two sockets of user X closed while the broadcast iterated
\* their set; the other one is still registered under the key of X
C29_Witness ==
  /\ bQueue # <<>> /\ Head(bQueue) = "X"
  /\ bIter.on /\ bIter.used = 2
  /\ Cardinality(active["X"]) = 1
  /\ InSeq(keys, "X")
-----------------------------------------------------------------------------
(* The order of the sends on a socket (SpecOrder) *)

-----------------------------------------------------------------------------
(* The discovery of the node tree (SpecTree) *)

\* the nodes between node n and the root of its device
Ancestors(n) == {Parent(n), Parent(Parent(n))} \ {""}

\* the tags of the variables of device d that faults m leave in reach: the
\* variable is classified and every node above it lists its children
ExpectedTags(d, m) ==
  {BrowseName(n) : n \in {v \in DevNodes(d) :
                            /\ IsVariable(v)
                            /\ <<v, "class">> \notin m
                            /\ \A a \in Ancestors(v) :
                                 <<a, "children">> \notin m}}

\* C30: a discovery that ran into node faults still ends with success, the
\* device CONNECTED, and the node map of a connected device holds the tag
\* of every variable that was classified and lies below no node whose
\* children could not be listed, and nothing else.
C30_DiscoverySkipsOnlyFailingPart ==
  [][\A d \in Urls :
       /\ marks'[d] # marks[d] => cd'[d] = "ok" /\ status'[d] = "CONNECTED"
       /\ status'[d] = "CONNECTED" =>
            nodes'[d] = ExpectedTags(d, marks'[d])]_vars

\* folder f1 could not be classified and variable v2 neither: the discovery
\* of device A succeeded and found t1 below the folder
C30_Witness ==
  /\ marks["A"] = {<<"f1", "class">>, <<"v2", "class">>}
  /\ status["A"] = "CONNECTED"
  /\ nodes["A"] = {"t1"}
=============================================================================
